---- MODULE Spec2Model ----
(***************************************************************************)
(* WeightofEvidenceEncoder (src/WeightofEvidenceEncoder/                   *)
(* WeightofEvidenceEncoder.py) as a state machine.                         *)
(*                                                                         *)
(* Numbers.  A float is the pair <<"f", m>>, m an integer number of        *)
(* thousandths; NaN is <<"nan", 0>>; a category of a training column is    *)
(* <<"c", k>>.  np.log is the fixed-point logarithm LnMilli.  A proportion *)
(* is kept exact as a count over the class total, so an IV contribution    *)
(* is kept as a numerator over the feature's common denominator n0 * n1:   *)
(* the float it stands for is num / (den * 1000).                          *)
(*                                                                         *)
(* Tables.  A DataFrame is a function from column names to columns, a      *)
(* column being a sequence of cells, one per row.  The caller's table X is *)
(* a Python object that transofrm changes in place, so it is a variable.   *)
(*                                                                         *)
(* pandas.  Series.map with a dict mapper does not read na_action (pandas  *)
(* 1.x, the release line of the sklearn >= 0.24 that src/setup.py asks     *)
(* for); SeriesGroupBy.value_counts drops NaN cells; Series.sum skips NaN; *)
(* a label missing from an integer index raises KeyError.                  *)
(***************************************************************************)
EXTENDS Integers, Sequences, FiniteSets, TLC

\* ------------------------------------------------------------- bounds
MaxRows == 3
MaxCalls == 4
MaxFits == 2
MaxReps == 2
MaxIV == 520
MaxDen == 2

\* ------------------------------------------------------------- values
NaN == <<"nan", 0>>
None == <<"none", 0>>
Flt(m) == <<"f", m>>
Cat(k) == <<"c", k>>
IsNaN(v) == v[1] = "nan"

\* The categories a caller's column holds: A and B.
Cats == {Cat(1), Cat(2)}

\* The feature names a configuration can list, and the columns a caller's
\* table can bring.
FeatNames == {"a", "woe_a"}

RECURSIVE SumSet(_, _)
SumSet(S, f) ==
    IF S = {} THEN 0
    ELSE LET e == CHOOSE e \in S : TRUE IN f[e] + SumSet(S \ {e}, f)

\* np.log of a positive integer, in thousandths (ln 2 = 0.693, ln 3 = 1.099,
\* ln 5 = 1.609, ln 7 = 1.946), additive over the prime factors so that equal
\* ratios have equal logarithms.
RECURSIVE LnMilli(_)
LnMilli(k) ==
    IF k <= 1 THEN 0
    ELSE IF k % 2 = 0 THEN 693 + LnMilli(k \div 2)
    ELSE IF k % 3 = 0 THEN 1099 + LnMilli(k \div 3)
    ELSE IF k % 5 = 0 THEN 1609 + LnMilli(k \div 5)
    ELSE IF k % 7 = 0 THEN 1946 + LnMilli(k \div 7)
    ELSE 2398 + LnMilli(k \div 11)

\* ------------------------------------------------------------- state
VARIABLES
    feats,          \* self.feats: sequence of feature names
    drop_original,  \* self.drop_original
    fillna,         \* self.fillna: None or a float
    prefix,         \* self.prefix
    suffix,         \* self.suffix
    transform_dict, \* self.transform_dict: [woe: feat -> dict, iv: feat -> Series]
    is_fitted,      \* self.is_fitted
    X,              \* the caller's table object
    ret,            \* the last call: operation, outcome, returned table
    arg,            \* the caller's table as it was when the last call began
    fit_ok,         \* whether a fit has returned, and what the last such fit stored
    calls,          \* number of calls made so far
    Y,              \* the caller's target, in the runs that keep it
    first           \* what the first repetition of such a run returned

vars == <<feats, drop_original, fillna, prefix, suffix, transform_dict,
          is_fitted, X, ret, arg, fit_ok, calls, Y, first>>

config == <<feats, drop_original, fillna, prefix, suffix>>

\* ------------------------------------------------------------- inputs
FeatLists == {<<>>, <<"a">>, <<"a", "woe_a">>, <<"woe_a", "a">>}
FillValues == {None, Flt(0), Flt(5)}
Prefixes == {"", "woe_"}
Suffixes == {""}

Columns(n) == [1..n -> Cats]
Targets(n) == [1..n -> {0, 1}]

\* The rows of a fresh table are in sorted order (no operation of the encoder
\* reads the order of the rows, and the target of fit ranges over every
\* labelling of them).
RowKey(t, i) ==
    IF "woe_a" \in DOMAIN t THEN t["a"][i][2] * (Cardinality(Cats) + 1) + t["woe_a"][i][2]
    ELSE t["a"][i][2]

Sorted(t, n) == \A i \in 1..(n - 1) : RowKey(t, i) <= RowKey(t, i + 1)

\* A caller's fresh table of n rows: column "a", and column "woe_a" or not.
Tables(n) ==
    {t \in {[c \in {"a"} |-> col] : col \in Columns(n)}
            \cup {[c \in FeatNames |-> IF c = "a" THEN p[1] ELSE p[2]] :
                    p \in Columns(n) \X Columns(n)} : Sorted(t, n)}

FreshTables == Tables(MaxRows)

\* ------------------------------------------------------------- __calc_perc
\* Number of rows of class k whose cell is c (groupby("target")["feat"]
\* .value_counts()[k], as a count; NaN cells are dropped).
Count(x, y, k, c) == Cardinality({i \in 1..Len(x) : y[i] = k /\ x[i] = c})

\* y.value_counts()[k]
NClass(y, k) == Cardinality({i \in 1..Len(y) : y[i] = k})

\* The categories value_counts()[k] is indexed by.
SeenIn(x, y, k) == {x[i] : i \in {j \in 1..Len(x) : y[j] = k /\ ~IsNaN(x[j])}}

\* A lookup that yields an empty result for a missing label raises nothing.
CalcPercNeverRaises(x, y) == FALSE

\* Lines 53-57 raise KeyError when label k is in neither index.
CalcPercRaises(x, y) ==
    \E k \in {0, 1} : NClass(y, k) = 0 \/ SeenIn(x, y, k) = {}

\* ------------------------------------------------------------- fit
\* woe = np.log(p_non_event / p_event); woe.fillna(0): the division aligns
\* the two Series on the union of their indexes, NaN where one has no entry.
WoERaw(x, y, c) ==
    LET c0 == Count(x, y, 0, c)
        c1 == Count(x, y, 1, c)
    IN  IF c0 = 0 \/ c1 = 0 THEN NaN
        ELSE Flt(LnMilli(c0 * NClass(y, 1)) - LnMilli(c1 * NClass(y, 0)))

\* woe.fillna(0) left out.
FillWoEOmitted(w) == w

FillWoE(w) == IF IsNaN(w) THEN Flt(0) ELSE w

WoE(x, y) ==
    [c \in SeenIn(x, y, 0) \cup SeenIn(x, y, 1) |-> FillWoE(WoERaw(x, y, c))]

\* (p_non_event - p_event) * woe for one category, as a numerator over
\* n0 * n1; NaN where the difference is NaN.
IVRaw(x, y, c, w) ==
    LET c0 == Count(x, y, 0, c)
        c1 == Count(x, y, 1, c)
    IN  IF c0 = 0 \/ c1 = 0 THEN NaN
        ELSE Flt((c0 * NClass(y, 1) - c1 * NClass(y, 0)) * w[2])

\* "if self.fillna:" in place of "if self.fillna is not None:".
FillIVIfTruthy(v, fill, den) ==
    IF IsNaN(v) /\ fill # None /\ fill[2] # 0 THEN Flt(fill[2] * den) ELSE v

\* if self.fillna is not None: information_value.fillna(self.fillna)
FillIV(v, fill, den) ==
    IF IsNaN(v) /\ fill # None THEN Flt(fill[2] * den) ELSE v

InformationValue(x, y, fill) ==
    LET den == NClass(y, 0) * NClass(y, 1)
        woe == WoE(x, y)
    IN  [den |-> den,
         val |-> [c \in DOMAIN woe |-> FillIV(IVRaw(x, y, c, woe[c]), fill, den)]]

\* d with d[k] = v
Put(d, k, v) == [j \in DOMAIN d \cup {k} |-> IF j = k THEN v ELSE d[j]]

\* The loop of fit from feature i on: [err, td], td what transform_dict holds
\* when the loop ends or raises.
RECURSIVE FitLoop(_, _, _, _, _, _)
FitLoop(fs, fill, t, y, i, td) ==
    IF i > Len(fs) THEN [err |-> "none", td |-> td]
    ELSE IF fs[i] \notin DOMAIN t THEN [err |-> "KeyError", td |-> td]
    ELSE IF CalcPercRaises(t[fs[i]], y) THEN [err |-> "KeyError", td |-> td]
    ELSE FitLoop(fs, fill, t, y, i + 1,
                 [woe |-> Put(td.woe, fs[i], WoE(t[fs[i]], y)),
                  iv |-> Put(td.iv, fs[i], InformationValue(t[fs[i]], y, fill))])

\* self.is_fitted = True in a finally clause.
FittedAlways(was, err) == TRUE

\* self.is_fitted after fit: line 79 is reached only when the loop ends.
FittedAfter(was, err) == IF err = "none" THEN TRUE ELSE was

NoTable == <<>>

Fit(y) ==
    /\ LET r == FitLoop(feats, fillna, X, y, 1, transform_dict)
       IN  /\ transform_dict' = r.td
           /\ is_fitted' = FittedAfter(is_fitted, r.err)
           /\ fit_ok' = IF r.err = "none" THEN [done |-> TRUE, td |-> r.td] ELSE fit_ok
           /\ ret' = [op |-> "fit", err |-> r.err, out |-> NoTable,
                      degenerate |-> \E k \in {0, 1} : NClass(y, k) = 0,
                      mutated |-> r.td # transform_dict]
    /\ arg' = X
    /\ calls' = calls + 1
    /\ UNCHANGED <<config, X>>

\* ------------------------------------------------------------- transofrm
NewColName(f) == prefix \o f \o suffix

\* Series.map(dict): the entry of the cell, NaN for a cell with none.
MapCell(d, v) == IF v \in DOMAIN d THEN d[v] ELSE NaN

MapColumn(d, col) == [j \in 1..Len(col) |-> MapCell(d, col[j])]

\* X.drop([f], axis=1, inplace=True)
Drop(t, f) == [c \in DOMAIN t \ {f} |-> t[c]]

\* The drop without its name test.
DropsUnguarded == drop_original

\* The drop without its flag.
DropsUnasked == prefix \o suffix # ""

\* (self.drop_original is True) & (self.prefix + self.suffix != "")
Drops == drop_original /\ (prefix \o suffix # "")

\* One pass of the loop body, lines 96-101.
TransformFeat(t, f) ==
    LET t2 == Put(t, NewColName(f), MapColumn(transform_dict.woe[f], t[f]))
    IN  IF Drops THEN Drop(t2, f) ELSE t2

\* The loop from feature i on: [err, t], t the caller's table when the loop
\* ends or raises (X[feat] raises KeyError for a column the table lacks,
\* transform_dict["woe"][feat] for a feature with no stored table).
RECURSIVE TransformLoop(_, _)
TransformLoop(i, t) ==
    IF i > Len(feats) THEN [err |-> "none", t |-> t]
    ELSE IF feats[i] \notin DOMAIN t THEN [err |-> "KeyError", t |-> t]
    ELSE IF feats[i] \notin DOMAIN transform_dict.woe
         THEN [err |-> "KeyError", t |-> t]
    ELSE TransformLoop(i + 1, TransformFeat(t, feats[i]))

\* assert self.is_fitted
Guard == is_fitted

Transofrm ==
    /\ IF ~Guard
       THEN /\ ret' = [op |-> "transofrm", err |-> "AssertionError",
                       out |-> NoTable, degenerate |-> FALSE, mutated |-> FALSE]
            /\ X' = X
       ELSE LET r == TransformLoop(1, X)
            IN  /\ X' = r.t
                /\ ret' = [op |-> "transofrm", err |-> r.err,
                           out |-> IF r.err = "none" THEN r.t ELSE NoTable,
                           degenerate |-> FALSE, mutated |-> FALSE]
    /\ arg' = X
    /\ calls' = calls + 1
    /\ UNCHANGED <<config, transform_dict, is_fitted, fit_ok>>

\* ------------------------------------------------------------- __add_description
\* predictive_power in insertion order; a bound is in thousandths, the upper
\* bound of the last band is np.inf.
predictive_power ==
    << [lo |-> 0,   hi |-> Flt(20),  desc |-> "Not useful for prediction"],
       [lo |-> 20,  hi |-> Flt(100), desc |-> "Weak predictive power"],
       [lo |-> 100, hi |-> Flt(300), desc |-> "Medium predictive power"],
       [lo |-> 300, hi |-> Flt(500), desc |-> "Strong predictive power"],
       [lo |-> 500, hi |-> <<"inf", 0>>, desc |-> "Too good to be true!"] >>

\* The argument of __add_description is a float of kind v.k: "num" for
\* v.num / (v.den * 1000), "nan", "inf" or "ninf".  Every comparison with
\* NaN is false.
\* lo <= v, lo a number of thousandths
LeFloat(lo, v) == v.k = "inf" \/ (v.k = "num" /\ lo * v.den <= v.num)

\* v < hi, hi a float of thousandths or np.inf
LtFloat(v, hi) ==
    IF hi[1] = "inf" THEN v.k \in {"num", "ninf"}
    ELSE v.k = "ninf" \/ (v.k = "num" /\ v.num < hi[2] * v.den)

\* bounds[0] <= information_value <= bounds[1].
InBandClosed(b, v) ==
    /\ LeFloat(b.lo, v)
    /\ (LtFloat(v, b.hi) \/ (v.k = "num" /\ b.hi[1] = "f" /\ v.num = b.hi[2] * v.den))

\* bounds[0] <= information_value < bounds[1]
InBand(b, v) == LeFloat(b.lo, v) /\ LtFloat(v, b.hi)

RECURSIVE DescribeFrom(_, _)
DescribeFrom(i, v) ==
    IF i > Len(predictive_power) THEN "Too good to be true!"
    ELSE IF InBand(predictive_power[i], v) THEN predictive_power[i].desc
    ELSE DescribeFrom(i + 1, v)

AddDescription(v) == DescribeFrom(1, v)

\* ------------------------------------------------------------- information_values
\* Series.sum() of the stored contributions: NaN entries are skipped.
SumIV(s) ==
    LET D == {c \in DOMAIN s.val : ~IsNaN(s.val[c])}
    IN  [k |-> "num",
         num |-> SumSet(D, [c \in D |-> s.val[c][2]]),
         den |-> s.den]

FeatSet == {feats[i] : i \in 1..Len(feats)}

InformationValues(add_description) ==
    /\ IF ~Guard
       THEN ret' = [op |-> "information_values", err |-> "AssertionError",
                    out |-> NoTable, degenerate |-> FALSE, mutated |-> FALSE]
       ELSE IF \E f \in FeatSet : f \notin DOMAIN transform_dict.iv
       THEN ret' = [op |-> "information_values", err |-> "KeyError",
                    out |-> NoTable, degenerate |-> FALSE, mutated |-> FALSE]
       ELSE ret' = [op |-> "information_values", err |-> "none",
                    out |-> [f \in FeatSet |->
                               LET v == SumIV(transform_dict.iv[f])
                               IN  [iv |-> v,
                                    desc |-> IF add_description
                                             THEN AddDescription(v)
                                             ELSE "(no column)"]],
                    degenerate |-> FALSE, mutated |-> FALSE]
    /\ arg' = X
    /\ calls' = calls + 1
    /\ UNCHANGED <<config, transform_dict, is_fitted, fit_ok, X>>

\* ------------------------------------------------------------- the caller
\* Between two calls the caller takes a column out of its table.
DropColumn(c) ==
    /\ c \in DOMAIN X
    /\ X' = Drop(X, c)
    /\ arg' = X
    /\ ret' = [op |-> "caller", err |-> "none", out |-> NoTable,
               degenerate |-> FALSE, mutated |-> FALSE]
    /\ calls' = calls + 1
    /\ UNCHANGED <<config, transform_dict, is_fitted, fit_ok>>

\* ------------------------------------------------------------- __init__
EmptyDict == [woe |-> <<>>, iv |-> <<>>]

NoRet == [op |-> "init", err |-> "none", out |-> NoTable,
          degenerate |-> FALSE, mutated |-> FALSE]

NoFirst == [done |-> FALSE, fit_err |-> "none", err |-> "none", out |-> NoTable]

Init ==
    /\ feats \in FeatLists
    /\ drop_original \in BOOLEAN
    /\ fillna \in FillValues
    /\ prefix \in Prefixes
    /\ suffix \in Suffixes
    /\ transform_dict = EmptyDict
    /\ is_fitted = FALSE
    /\ X \in FreshTables
    /\ ret = NoRet
    /\ arg = X
    /\ fit_ok = [done |-> FALSE, td |-> EmptyDict]
    /\ calls = 0
    /\ Y = <<>>
    /\ first = NoFirst

\* Any sequence of calls on one encoder and one caller's table.
CallFit ==
    /\ calls < MaxCalls
    /\ \E yy \in Targets(MaxRows) : Fit(yy)
    /\ UNCHANGED <<Y, first>>

CallTransofrm ==
    /\ calls < MaxCalls
    /\ Transofrm
    /\ UNCHANGED <<Y, first>>

CallInformationValues ==
    /\ calls < MaxCalls
    /\ \E d \in BOOLEAN : InformationValues(d)
    /\ UNCHANGED <<Y, first>>

CallerDropsColumn ==
    /\ calls < MaxCalls
    /\ \E c \in FeatNames : DropColumn(c)
    /\ UNCHANGED <<Y, first>>

Next == CallFit \/ CallTransofrm \/ CallInformationValues \/ CallerDropsColumn

Spec == Init /\ [][Next]_vars

\* ------------------------------------------------------------- fit alone
\* fit, and fit again, on a fresh encoder.
NextFit ==
    /\ calls < MaxFits
    /\ \E yy \in Targets(MaxRows) : Fit(yy) /\ Y' = yy
    /\ UNCHANGED first

SpecFit == Init /\ [][NextFit]_vars

\* ------------------------------------------------------------- repeated runs
\* The caller repeats fit(X, y) and transofrm(X) on the same table object and
\* the same target.
InitDet ==
    /\ feats \in FeatLists
    /\ drop_original \in BOOLEAN
    /\ fillna \in FillValues
    /\ prefix \in Prefixes
    /\ suffix \in Suffixes
    /\ transform_dict = EmptyDict
    /\ is_fitted = FALSE
    /\ X \in FreshTables
    /\ ret = NoRet
    /\ arg = X
    /\ fit_ok = [done |-> FALSE, td |-> EmptyDict]
    /\ calls = 0
    /\ Y \in Targets(MaxRows)
    /\ first = NoFirst

DetFit ==
    /\ ret.op \in {"init", "transofrm"}
    /\ calls < 2 * MaxReps
    /\ Fit(Y)
    /\ UNCHANGED <<Y, first>>

\* first keeps the first repetition: the outcome of its fit, the outcome and
\* the table of its transofrm.
DetTransofrm ==
    /\ ret.op = "fit"
    /\ Transofrm
    /\ first' = IF calls = 1
                THEN [done |-> TRUE, fit_err |-> ret.err, err |-> ret'.err,
                      out |-> ret'.out]
                ELSE first
    /\ UNCHANGED Y

NextDet == DetFit \/ DetTransofrm

SpecDet == InitDet /\ [][NextDet]_vars

\* ------------------------------------------------------------- bands alone
\* __add_description as a function of its argument.
IVInputs ==
    {[k |-> kk, num |-> 0, den |-> 1] : kk \in {"nan", "inf", "ninf"}}
    \cup {[k |-> "num", num |-> n, den |-> d] :
            n \in (0 - MaxIV)..MaxIV, d \in 1..MaxDen}

InitBands ==
    /\ feats = <<>>
    /\ drop_original = FALSE
    /\ fillna = None
    /\ prefix = "woe_"
    /\ suffix = ""
    /\ transform_dict = EmptyDict
    /\ is_fitted = FALSE
    /\ X = NoTable
    /\ ret = NoRet
    /\ arg \in IVInputs
    /\ fit_ok = [done |-> FALSE, td |-> EmptyDict]
    /\ calls = 0
    /\ Y = <<>>
    /\ first = NoFirst

Describe ==
    /\ ret.op = "init"
    /\ ret' = [op |-> "__add_description", err |-> "none",
               out |-> AddDescription(arg), degenerate |-> FALSE,
               mutated |-> FALSE]
    /\ calls' = calls + 1
    /\ UNCHANGED <<config, transform_dict, is_fitted, X, arg, fit_ok, Y, first>>

NextBands == Describe

SpecBands == InitBands /\ [][NextBands]_vars

\* ------------------------------------------------------------- properties
\* What the claims read of the last call.
Transformed == ret.op = "transofrm" /\ ret.err = "none"
Fitted == ret.op = "fit" /\ ret.err = "none"
Rows == 1..MaxRows

\* The category c of column x lies in one class of the target only.
OneClass(x, c) ==
    \/ \A i \in Rows : x[i] = c => Y[i] = 1
    \/ \A i \in Rows : x[i] = c => Y[i] = 0

\* C1: while no fit has returned, transofrm and information_values end in the
\* guard's error and return no table; once a fit has returned, the guard
\* rejects neither of them, whatever calls came in between: information_values
\* returns, and transofrm returns unless the table it is given lacks the column
\* of a configured feature.
C1_UnfittedGuard ==
    /\ ret.op \in {"transofrm", "information_values"} =>
           /\ ~fit_ok.done => (ret.err = "AssertionError" /\ ret.out = NoTable)
           /\ fit_ok.done => ret.err # "AssertionError"
    /\ (ret.op = "information_values" /\ fit_ok.done) => ret.err = "none"
    /\ (ret.op = "transofrm" /\ fit_ok.done /\ ret.err # "none") =>
           \E f \in FeatSet : f \notin DOMAIN arg

\* A call rejected after a fit that raised, having stored part of a model.
C1_Witness ==
    /\ ret.op = "transofrm"
    /\ ret.err = "AssertionError"
    /\ transform_dict # EmptyDict
    /\ ~fit_ok.done

\* C3 as stated: a fit whose target lacks a class raises, and leaves an
\* unfitted encoder unfitted.
C3_DegenerateTargetRaises ==
    (ret.op = "fit" /\ ret.degenerate) =>
        /\ ret.err # "none"
        /\ is_fitted => fit_ok.done

\* C3 amended: the same, for an encoder with at least one configured feature;
\* the failed call stores nothing, and the encoder is fitted after it only if
\* an earlier fit returned.
C3_DegenerateTargetRaisesWithFeats ==
    (ret.op = "fit" /\ ret.degenerate /\ feats # <<>>) =>
        /\ ret.err = "KeyError"
        /\ ~ret.mutated
        /\ is_fitted = fit_ok.done

\* A first fit on a table that has every configured column, raising on its
\* target.
C3_Witness ==
    /\ ret.op = "fit"
    /\ ret.degenerate
    /\ feats # <<>>
    /\ FeatSet \subseteq DOMAIN X
    /\ ret.err = "KeyError"
    /\ ~is_fitted

\* C5: the description of an IV value is the band it lies in, lower bound
\* included and upper bound excluded, and "Too good to be true!" for a value
\* in no band.
C5_Bands ==
    ret.op = "__add_description" =>
        LET v == arg
            d == ret.out
            n == v.num
            m == v.den
        IN  /\ (v.k = "num" /\ 0 <= n /\ n < 20 * m) => d = "Not useful for prediction"
            /\ (v.k = "num" /\ 20 * m <= n /\ n < 100 * m) => d = "Weak predictive power"
            /\ (v.k = "num" /\ 100 * m <= n /\ n < 300 * m) => d = "Medium predictive power"
            /\ (v.k = "num" /\ 300 * m <= n /\ n < 500 * m) => d = "Strong predictive power"
            /\ (v.k = "num" /\ 500 * m <= n) => d = "Too good to be true!"
            /\ (v.k # "num" \/ n < 0) => d = "Too good to be true!"

\* IV = 0.02 exactly is described as weak.
C5_Witness ==
    /\ ret.op = "__add_description"
    /\ arg = [k |-> "num", num |-> 20, den |-> 1]
    /\ ret.out = "Weak predictive power"

\* C8: after a fit that returned, the WoE table of a configured feature has
\* an entry for every category of the training column, and the entry of a
\* category seen in one class only is 0.
C8_DegenerateWoEFill ==
    Fitted =>
        \A f \in FeatSet :
            LET d == transform_dict.woe[f]
            IN  /\ DOMAIN d = {X[f][i] : i \in Rows}
                /\ \A c \in DOMAIN d : OneClass(X[f], c) => d[c] = Flt(0)

\* A fit that stored 0 for a one-class category beside a WoE that is not 0.
C8_Witness ==
    /\ Fitted
    /\ \E f \in FeatSet :
        \E c, e \in DOMAIN transform_dict.woe[f] :
            /\ OneClass(X[f], c)
            /\ ~OneClass(X[f], e)
            /\ transform_dict.woe[f][e] # Flt(0)

\* The difference of proportions of category c, over n0 * n1.
DiffNum(x, c) ==
    Cardinality({i \in Rows : x[i] = c /\ Y[i] = 0})
        * Cardinality({i \in Rows : Y[i] = 1})
    - Cardinality({i \in Rows : x[i] = c /\ Y[i] = 1})
        * Cardinality({i \in Rows : Y[i] = 0})

\* C9: after a fit that returned, the IV contribution of a one-class category
\* is the fill value when one is configured (0 included) and undefined when
\* none is; that of a two-class category is the difference of its proportions
\* times its stored WoE, never the fill value.
C9_IVFillPolicy ==
    Fitted =>
        \A f \in FeatSet :
            LET s == transform_dict.iv[f]
                w == transform_dict.woe[f]
            IN  /\ DOMAIN s.val = DOMAIN w
                /\ s.den = Cardinality({i \in Rows : Y[i] = 1})
                            * Cardinality({i \in Rows : Y[i] = 0})
                /\ \A c \in DOMAIN w :
                    IF OneClass(X[f], c)
                    THEN s.val[c] = IF fillna = None THEN NaN
                                    ELSE Flt(fillna[2] * s.den)
                    ELSE s.val[c] = Flt(DiffNum(X[f], c) * w[c][2])

\* A fit under the fill value 0 with a one-class category and a two-class
\* category whose contribution is not 0.
C9_Witness ==
    /\ Fitted
    /\ fillna = Flt(0)
    /\ \E f \in FeatSet :
        \E c, e \in DOMAIN transform_dict.woe[f] :
            /\ OneClass(X[f], c)
            /\ transform_dict.iv[f].val[c] = Flt(0)
            /\ ~OneClass(X[f], e)
            /\ transform_dict.iv[f].val[e] \notin {Flt(0), NaN}

\* The encoded value of a cell of feature f under the stored WoE table.
Encoded(f, cell) ==
    IF cell \in DOMAIN transform_dict.woe[f] THEN transform_dict.woe[f][cell]
    ELSE NaN

\* The table t has column NewColName(f), holding the encoded cells of the
\* column f of the table s.
EncodedColumn(t, s, f) ==
    /\ f \in DOMAIN s
    /\ NewColName(f) \in DOMAIN t
    /\ \A i \in Rows : t[NewColName(f)][i] = Encoded(f, s[f][i])

\* C2 as stated: the table transofrm returns has, for every configured
\* feature f, the column prefix+f+suffix holding the stored WoE of each row's
\* category of f in the table passed, NaN for a category without entry.
C2_TransformOutput ==
    Transformed => \A f \in FeatSet : EncodedColumn(ret.out, arg, f)

SumDefined(s) ==
    LET D == {c \in DOMAIN s.val : s.val[c] # NaN}
    IN  SumSet(D, [c \in D |-> s.val[c][2]])

\* C6: information_values reports, for every configured feature, the sum of
\* the contributions that the last fit that returned has stored.
C6_IVAggregation ==
    (ret.op = "information_values" /\ ret.err = "none") =>
        \A f \in FeatSet :
            /\ ret.out[f].iv.k = "num"
            /\ ret.out[f].iv.num = SumDefined(fit_ok.td.iv[f])
            /\ ret.out[f].iv.den = fit_ok.td.iv[f].den

\* C10: a fit that raises leaves the stored tables as they were, and no call
\* reads tables other than those the last fit that returned has stored.
C10_FailedFitAtomic ==
    /\ (ret.op = "fit" /\ ret.err # "none") => ~ret.mutated
    /\ (ret.op \in {"transofrm", "information_values"} /\ ret.err = "none") =>
            transform_dict = fit_ok.td

\* The first repetition of fit and transofrm has returned a table.
FirstOK == first.done /\ first.fit_err = "none" /\ first.err = "none"

\* Every later call returns, and transofrm returns the first table again.
Repeats ==
    /\ ret.op = "fit" => ret.err = "none"
    /\ ret.op = "transofrm" => (ret.err = "none" /\ ret.out = first.out)

\* C7 as stated, for the inputs on which the first repetition succeeds: every
\* repetition of fit(X, y) and transofrm(X) succeeds and returns the table of
\* the first one, under every configuration.
C7_Determinism == FirstOK => Repeats

\* transofrm leaves the configured columns in the caller's table as they are.
KeepsFeatures ==
    ~drop_original /\ \A f \in FeatSet : NewColName(f) \notin FeatSet

\* C7 amended: the same under the configurations of KeepsFeatures.
C7_DeterminismKeepingFeatures == (FirstOK /\ KeepsFeatures) => Repeats

\* A second repetition that returned the first table, a WoE in it not 0.
C7_Witness ==
    /\ FirstOK
    /\ KeepsFeatures
    /\ calls = 2 * MaxReps
    /\ Transformed
    /\ \E f \in FeatSet : \E i \in Rows :
            ret.out[NewColName(f)][i] \notin {Flt(0), NaN}

====
